---- MODULE Spec2Model ----
(***************************************************************************)
(* Model of the room coordinator of dsns-calopoly-server/app/index.js:     *)
(* the room registry `rooms`, the socket.io broadcast groups, the pending  *)
(* 60-second eviction timers, and one action per socket event handler.     *)
(* All handlers run to completion on the single event-loop thread, so each *)
(* handler (and each timer callback) is one atomic action.                 *)
(***************************************************************************)
EXTENDS Integers, Sequences, FiniteSets, TLC

(* ------------------------------ bounds --------------------------------- *)
MaxChat == 2           \* longest chat log kept in a room of the model
NumSymIds == 12        \* stable ids of the symbol-assignment specification

(* --------------------------- program constants -------------------------- *)
MaxChatLength == 500   \* index.js:90
possibleSymbols ==     \* index.js:49  the eleven symbols, in order
    << "rabbit", "cow", "dog", "cat", "rooster", "pig",
       "goat", "horse", "ox", "sheep", "poodle" >>
fallbackSymbol == "rabbit"   \* index.js:51  || "rabbit"

(* ------------------------------ input sets ------------------------------ *)
Sockets == {1, 2}      \* socket ids: a first connection and a later one
RoomIDs == {"A", "B"}  \* room ids of the registry; Spec sends events to "A"

VARIABLES
    rooms,       \* index.js:7   roomID -> Room State, or NoRoom
    roomOrder,   \* key order of `rooms` (insertion order), read by for..in
    subs,        \* socket.io broadcast group of each room id (socket.join)
    conn,        \* each connection: "new", "open" or "closed"
    timers,      \* pending setTimeout callbacks of index.js:112, FIFO
    out,         \* messages emitted by the handler that ran last
    last         \* the event handled last and the path its handler took

vars == << rooms, roomOrder, subs, conn, timers, out, last >>

(* ------------------------------- helpers -------------------------------- *)
NoRoom == [undefined |-> TRUE]

\* a room created with rolled dice
NewRoomRolled == [players |-> << >>, currentTurn |-> 0, dice |-> << 0, 0 >>,
                  started |-> FALSE, chat |-> << >>]

\* index.js:41  the object literal of a newly created room
NewRoom == [players |-> << >>, currentTurn |-> 0, dice |-> << -1, -1 >>,
            started |-> FALSE, chat |-> << >>]

Exists(roomID) == roomID \in RoomIDs /\ rooms[roomID] # NoRoom

\* Array.prototype.findIndex: first index satisfying Test, 0 when none (-1)
FindIndex(seq, Test(_)) ==
    IF \E i \in 1..Len(seq) : Test(seq[i])
    THEN CHOOSE i \in 1..Len(seq) :
            Test(seq[i]) /\ \A j \in 1..(i - 1) : ~Test(seq[j])
    ELSE 0

\* Array.prototype.splice(index, 1)
Splice(seq, i) == SubSeq(seq, 1, i - 1) \o SubSeq(seq, i + 1, Len(seq))

\* Array.prototype.map((p) => p.symbol)
usedSymbols(players) == { players[i].symbol : i \in 1..Len(players) }

\* index.js:51  possibleSymbols.find((s) => !usedSymbols.includes(s)) || fallback
PickSymbol(players) ==
    LET i == FindIndex(possibleSymbols, LAMBDA s : s \notin usedSymbols(players))
    IN  IF i = 0 THEN fallbackSymbol ELSE possibleSymbols[i]

(* ------------------------- messages and JSON ---------------------------- *)
\* A payload as it arrives in a handler: a JS value with its typeof; for a
\* string, `json` says what JSON.parse makes of the text ("invalid": throws).
JSONText(kind, v) == [type |-> "string", json |-> kind, val |-> v]
Garbage == [type |-> "string", json |-> "invalid", val |-> "{oops"]
Undefined == [type |-> "undefined", json |-> "invalid", val |-> "undefined"]

\* index.js:17-24  whether JSON.parse(msg) returns: a non-string argument
\* is converted with String() first, so a native boolean or number parses
\* to itself and undefined throws
isValidJSON(msg) ==
    CASE msg.type = "string" -> msg.json # "invalid"
      [] msg.type \in {"boolean", "number"} -> TRUE
      [] OTHER -> FALSE

\* the value JSON.parse returns, as [kind, val]
JSONparse(msg) ==
    IF msg.type = "string" THEN [kind |-> msg.json, val |-> msg.val]
    ELSE [kind |-> msg.type, val |-> msg.val]

\* JSON.stringify(v) of a value of the given kind
JSONstringify(kind, v) == JSONText(kind, v)

(* ------------------------------ emissions ------------------------------- *)
\* io.to(roomID).emit(event, payload)
ToRoom(roomID, event, payload) ==
    [to |-> "room", room |-> roomID, socket |-> 0, event |-> event, payload |-> payload]
\* socket.emit(event, payload)
ToSocket(s, event, payload) ==
    [to |-> "socket", room |-> "", socket |-> s, event |-> event, payload |-> payload]

Event(ev, s, roomID, arg, path) ==
    [ev |-> ev, socket |-> s, room |-> roomID, arg |-> arg, path |-> path]

Init ==
    /\ rooms = [r \in RoomIDs |-> NoRoom]
    /\ roomOrder = << >>
    /\ subs = [r \in RoomIDs |-> {}]
    /\ conn = [s \in Sockets |-> "new"]
    /\ timers = << >>
    /\ out = << >>
    /\ last = Event("listen", 0, "", Undefined, "start")

\* index.js:26  io.on("connection"): the transport opens connections one
\* after the other, each with a fresh socket.id
Connect ==
    /\ \E s \in Sockets :
          /\ conn[s] = "new"
          /\ \A t \in Sockets : t < s => conn[t] # "new"
          /\ conn' = [conn EXCEPT ![s] = "open"]
          /\ last' = Event("connection", s, "", Undefined, "opened")
    /\ out' = << >>
    /\ UNCHANGED << rooms, roomOrder, subs, timers >>

(* ------------------------------- join-room ------------------------------ *)
NoPlayer == [undefined |-> TRUE]

\* the player object a client sends with join-room (its gameplay fields
\* position, money, properties, recentDiff are opaque to the server)
Claim(id, name) == [id |-> id, name |-> name]

\* index.js:44-45, 51  the claim as it is pushed into the room
Joined(s, roomID, player, players) ==
    [id |-> player.id, name |-> player.name, socketID |-> s, roomID |-> roomID,
     symbol |-> PickSymbol(players), disconnected |-> FALSE]

\* the name check counting connected players only
NameTakenByConnected(roomID, player) ==
    /\ Exists(roomID)
    /\ \E i \in 1..Len(rooms[roomID].players) :
          /\ rooms[roomID].players[i].name = player.name
          /\ rooms[roomID].players[i].id # player.id
          /\ ~rooms[roomID].players[i].disconnected

\* index.js:35  another stored player has this name under a different id
NameTaken(roomID, player) ==
    /\ Exists(roomID)
    /\ \E i \in 1..Len(rooms[roomID].players) :
          /\ rooms[roomID].players[i].name = player.name
          /\ rooms[roomID].players[i].id # player.id

\* the push without the existingPlayer test
JoinPlayersAlways(s, roomID, player, players) ==
    Append(players, Joined(s, roomID, player, players))

\* index.js:47-53  an existing stored player is left exactly as it is
JoinPlayers(s, roomID, player, players) ==
    LET existingPlayer == FindIndex(players, LAMBDA p : p.id = player.id)
    IN  IF existingPlayer = 0
        THEN Append(players, Joined(s, roomID, player, players))
        ELSE players

\* a join that sends the room and its players only
JoinBroadcastShort(roomID, room) ==
    << ToRoom(roomID, "joined-room", JSONstringify("object", room)),
       ToRoom(roomID, "update-players", JSONstringify("array", room.players)) >>

\* index.js:55-59
JoinBroadcast(roomID, room) ==
    << ToRoom(roomID, "joined-room", JSONstringify("object", room)),
       ToRoom(roomID, "update-players", JSONstringify("array", room.players)),
       ToRoom(roomID, "update-turn", JSONstringify("number", room.currentTurn)),
       ToRoom(roomID, "update-dice", JSONstringify("array", room.dice)),
       ToRoom(roomID, "update-chat", JSONstringify("array", room.chat)) >>

\* history only: a pending eviction whose player's stable id has been
\* accepted again in the same room since the disconnect
NoteRejoin(roomID, player) ==
    [i \in 1..Len(timers) |->
        IF timers[i].roomID = roomID /\ timers[i].player.id = player.id
        THEN [timers[i] EXCEPT !.rejoined = TRUE]
        ELSE timers[i]]

\* index.js:29-60
JoinRoom(s, roomID, player) ==
    /\ conn[s] = "open"
    /\ IF roomID = "" \/ player = NoPlayer
       THEN /\ out' = << >>
            /\ last' = Event("join-room", s, roomID, player, "ignored")
            /\ UNCHANGED << rooms, roomOrder, subs, timers >>
       ELSE /\ subs' = [subs EXCEPT ![roomID] = @ \cup {s}]
            /\ IF NameTaken(roomID, player)
               THEN /\ out' = << ToSocket(s, "name-taken", TRUE) >>
                    /\ last' = Event("join-room", s, roomID, player, "name-taken")
                    /\ UNCHANGED << rooms, roomOrder, timers >>
               ELSE LET room0 == IF Exists(roomID) THEN rooms[roomID] ELSE NewRoom
                        room1 == [room0 EXCEPT !.players =
                                     JoinPlayers(s, roomID, player, room0.players)]
                    IN  /\ rooms' = [rooms EXCEPT ![roomID] = room1]
                        /\ roomOrder' = IF Exists(roomID) THEN roomOrder
                                        ELSE Append(roomOrder, roomID)
                        /\ timers' = NoteRejoin(roomID, player)
                        /\ out' = JoinBroadcast(roomID, room1)
                        /\ last' = Event("join-room", s, roomID, player,
                                         IF room1.players = room0.players
                                         THEN "existing" ELSE "pushed")
    /\ UNCHANGED conn

(* --------------------------- mutation handlers -------------------------- *)
\* these handlers never read `socket`: any open connection may be the sender
AnyOpen == \E s \in Sockets : conn[s] = "open"

HasIdIn(players, id) == \E i \in 1..Len(players) : players[i].id = id

Ignore(ev, roomID, msg) ==
    /\ out' = << >>
    /\ last' = Event(ev, 0, roomID, msg, "ignored")
    /\ UNCHANGED << rooms, roomOrder, subs, conn, timers >>

\* an update that keeps the stored players the payload does not mention
StoredPlayersMerged(old, players) ==
    players \o SelectSeq(old, LAMBDA p : ~HasIdIn(players, p.id))

\* index.js:66  rooms[roomID].players = players
StoredPlayers(old, players) ==
    players

\* index.js:62-70
UpdatePlayers(roomID, msg) ==
    /\ AnyOpen
    /\ IF ~isValidJSON(msg) \/ ~Exists(roomID)
       THEN Ignore("update-players", roomID, msg)
       ELSE LET players == JSONparse(msg)
            IN  IF players.kind = "array"
                THEN /\ rooms' = [rooms EXCEPT ![roomID].players =
                                            StoredPlayers(@, players.val)]
                     /\ out' = << ToRoom(roomID, "update-players",
                                         JSONstringify("array", players.val)) >>
                     /\ last' = Event("update-players", 0, roomID, msg, "stored")
                     /\ UNCHANGED << roomOrder, subs, conn, timers >>
                ELSE Ignore("update-players", roomID, msg)

\* a relay that also keeps the forwarded value in the room
ForwardStored(ev, roomID, msg) ==
    /\ AnyOpen
    /\ out' = << ToRoom(roomID, ev, msg) >>
    /\ last' = Event(ev, 0, roomID, msg, "forwarded")
    /\ rooms' = IF ~Exists(roomID) THEN rooms
                ELSE IF ev = "update-turn"
                     THEN [rooms EXCEPT ![roomID].currentTurn = JSONparse(msg).val]
                     ELSE [rooms EXCEPT ![roomID].dice = JSONparse(msg).val]
    /\ UNCHANGED << roomOrder, subs, conn, timers >>

\* index.js:72-74 and 76-78  (ev is "update-turn" or "update-dice")
Forward(ev, roomID, msg) ==
    /\ AnyOpen
    /\ out' = << ToRoom(roomID, ev, msg) >>
    /\ last' = Event(ev, 0, roomID, msg, "forwarded")
    /\ UNCHANGED << rooms, roomOrder, subs, conn, timers >>

UpdateTurn(roomID, msg) == Forward("update-turn", roomID, msg)

UpdateDice(roomID, msg) == Forward("update-dice", roomID, msg)

\* start-state without the typeof test: any parsed value is taken as a flag
StartStateAnyType(roomID, msg) ==
    /\ AnyOpen
    /\ IF ~isValidJSON(msg) \/ ~Exists(roomID)
       THEN Ignore("start-state", roomID, msg)
       ELSE /\ rooms' = [rooms EXCEPT ![roomID].started =
                            IF JSONparse(msg).kind = "boolean"
                            THEN JSONparse(msg).val ELSE TRUE]
            /\ out' = << ToRoom(roomID, "start-state", msg) >>
            /\ last' = Event("start-state", 0, roomID, msg, "stored")
            /\ UNCHANGED << roomOrder, subs, conn, timers >>

\* index.js:80-87
StartState(roomID, msg) ==
    /\ AnyOpen
    /\ IF ~isValidJSON(msg) \/ ~Exists(roomID)
       THEN Ignore("start-state", roomID, msg)
       ELSE LET started == JSONparse(msg)
            IN  IF started.kind = "boolean"
                THEN /\ rooms' = [rooms EXCEPT ![roomID].started = started.val]
                     /\ out' = << ToRoom(roomID, "start-state", msg) >>
                     /\ last' = Event("start-state", 0, roomID, msg, "stored")
                     /\ UNCHANGED << roomOrder, subs, conn, timers >>
                ELSE Ignore("start-state", roomID, msg)

\* a chat argument: a JS value with its typeof; val is the text of a string
Text(str) == [type |-> "string", val |-> str]

\* the length test off by one
TooLongAt500(msg) == Len(msg.val) >= MaxChatLength

\* index.js:90  msg.length > 500
TooLong(msg) == Len(msg.val) > MaxChatLength

\* a chat kept newest first
ChatPushFront(chat, entry) == << entry >> \o chat

\* index.js:91, 106, 120  chat.push(entry)
ChatPush(chat, entry) == Append(chat, entry)

\* index.js:89-93
Chat(roomID, msg) ==
    /\ AnyOpen
    /\ IF ~Exists(roomID) \/ msg.type # "string" \/ TooLong(msg)
       THEN Ignore("chat", roomID, msg)
       ELSE /\ Len(rooms[roomID].chat) < MaxChat
            /\ rooms' = [rooms EXCEPT ![roomID].chat = ChatPush(@, msg.val)]
            /\ out' = << ToRoom(roomID, "chat",
                                JSONstringify("array", rooms'[roomID].chat)) >>
            /\ last' = Event("chat", 0, roomID, msg, "stored")
            /\ UNCHANGED << roomOrder, subs, conn, timers >>

(* ------------------------ disconnect and eviction ----------------------- *)
\* index.js:98-101  for (const roomID in rooms): the first room, in key
\* order, that holds a player of this connection; 0 when there is none
FirstRoomOf(s) ==
    FindIndex(roomOrder, LAMBDA r :
        FindIndex(rooms[r].players, LAMBDA p : p.socketID = s) # 0)

WaitingNote(name) == name \o " disconnected. Waiting 60 seconds..."
GoneNote(name) == name \o " disconnected."

\* index.js:95-128  socket.io has taken the socket out of every broadcast
\* group by the time the "disconnect" handlers run
Disconnect(s) ==
    /\ conn[s] = "open"
    /\ conn' = [conn EXCEPT ![s] = "closed"]
    /\ subs' = [r \in RoomIDs |-> subs[r] \ {s}]
    /\ IF FirstRoomOf(s) = 0
       THEN /\ out' = << >>
            /\ last' = Event("disconnect", s, "", Undefined, "no-player")
            /\ UNCHANGED << rooms, roomOrder, timers >>
       ELSE LET roomID == roomOrder[FirstRoomOf(s)]
                room == rooms[roomID]
                playerIndex == FindIndex(room.players, LAMBDA p : p.socketID = s)
                player == room.players[playerIndex]
            IN  /\ Len(room.chat) < MaxChat
                /\ rooms' = [rooms EXCEPT
                      ![roomID].chat = ChatPush(@, WaitingNote(player.name)),
                      ![roomID].players[playerIndex].disconnected = TRUE]
                /\ out' = << ToRoom(roomID, "chat",
                                    JSONstringify("array", rooms'[roomID].chat)) >>
                /\ timers' = Append(timers,
                      [socketID |-> s, roomID |-> roomID, room |-> "live",
                       player |-> Claim(player.id, player.name),
                       rejoined |-> FALSE])
                /\ last' = Event("disconnect", s, roomID, Undefined, "scheduled")
                /\ UNCHANGED roomOrder

\* the array `room.players` the callback closed over: the registry's room
\* while that object is still registered; an object deleted from the
\* registry was empty when index.js:116 deleted it and nothing reaches it
\* afterwards
ClosurePlayers(t) ==
    IF t.room = "live" THEN rooms[t.roomID].players ELSE << >>

\* index.js:116  delete rooms[roomID]: the pending callbacks that closed
\* over the deleted object keep it, it is no longer the registry's
Orphaned(ts, roomID) ==
    [i \in 1..Len(ts) |->
        IF ts[i].roomID = roomID THEN [ts[i] EXCEPT !.room = "orphan"] ELSE ts[i]]

\* a callback that removes whoever still carries the connection id
ShouldEvictFound(players, updatedIndex) ==
    updatedIndex # 0

\* index.js:114  updatedIndex !== -1 && room.players[updatedIndex].disconnected
ShouldEvict(players, updatedIndex) ==
    updatedIndex # 0 /\ players[updatedIndex].disconnected

\* index.js:112-124  the callbacks all wait 60 s, so they run in the order
\* they were scheduled
TimerFire ==
    /\ timers # << >>
    /\ LET t == Head(timers)
           players == ClosurePlayers(t)
           updatedIndex == FindIndex(players, LAMBDA p : p.socketID = t.socketID)
       IN  IF ShouldEvict(players, updatedIndex)
           THEN LET spliced == Splice(players, updatedIndex)
                IN  IF Len(spliced) = 0
                    THEN /\ rooms' = [rooms EXCEPT ![t.roomID] = NoRoom]
                         /\ roomOrder' = SelectSeq(roomOrder, LAMBDA r : r # t.roomID)
                         /\ timers' = Orphaned(Tail(timers), t.roomID)
                         /\ out' = << ToRoom(t.roomID, "update-players",
                                             JSONstringify("array", spliced)) >>
                         /\ last' = Event("timeout", t.socketID, t.roomID, t, "evicted")
                    ELSE /\ Len(rooms[t.roomID].chat) < MaxChat
                         /\ rooms' = [rooms EXCEPT
                               ![t.roomID].players = spliced,
                               ![t.roomID].chat = ChatPush(@, GoneNote(t.player.name))]
                         /\ roomOrder' = roomOrder
                         /\ timers' = Tail(timers)
                         /\ out' = << ToRoom(t.roomID, "update-players",
                                             JSONstringify("array", spliced)),
                                      ToRoom(t.roomID, "chat",
                                             JSONstringify("array", rooms'[t.roomID].chat)) >>
                         /\ last' = Event("timeout", t.socketID, t.roomID, t, "evicted")
           ELSE /\ timers' = Tail(timers)
                /\ out' = << >>
                /\ last' = Event("timeout", t.socketID, t.roomID, t, "no-op")
                /\ UNCHANGED << rooms, roomOrder >>
    /\ UNCHANGED << subs, conn >>

(* --------------------------- inputs of the model ------------------------ *)
\* two players with their own names, and the second one under the first's name
Claims == { Claim(1, "Alice"), Claim(2, "Bob"), Claim(2, "Alice") }

\* what a client holds of the player list: the server sends the list on
\* joins, updates and evictions, never when it sets a disconnected flag
Stale(players) ==
    [i \in 1..Len(players) |-> [players[i] EXCEPT !.disconnected = FALSE]]

\* arrays a client sends with update-players: nothing, the list it holds,
\* or that list without one of its players
PlayerArrays(roomID) ==
    LET cur == IF Exists(roomID) THEN rooms[roomID].players ELSE << >>
    IN  {<< >>, Stale(cur)}
           \cup { Splice(Stale(cur), i) : i \in 1..Len(cur) }

UpdatePlayersMsgs(roomID) ==
    { JSONstringify("array", a) : a \in PlayerArrays(roomID) }
       \cup { Garbage, JSONText("boolean", TRUE) }

StartStateMsgs ==
    { JSONText("boolean", TRUE), JSONText("boolean", FALSE), Garbage,
      JSONText("number", 1) }

TurnMsgs == { JSONText("number", 1) }
DiceMsgs == { JSONText("array", << 3, 4 >>) }

RECURSIVE Repeat(_, _)
Repeat(str, n) ==
    IF n = 0 THEN ""
    ELSE IF n % 2 = 0
         THEN LET half == Repeat(str, n \div 2) IN half \o half
         ELSE str \o Repeat(str, n - 1)

ChatMsgs ==
    { Text(Repeat("x", MaxChatLength)), Text(Repeat("x", MaxChatLength + 1)),
      [type |-> "number", val |-> "42"] }

Next ==
    \/ Connect
    \/ \E s \in Sockets, player \in Claims : JoinRoom(s, "A", player)
    \/ \E s \in Sockets : JoinRoom(s, "", Claim(1, "Alice")) \/ JoinRoom(s, "A", NoPlayer)
    \/ \E msg \in UpdatePlayersMsgs("A") : UpdatePlayers("A", msg)
    \/ \E msg \in TurnMsgs : UpdateTurn("A", msg)
    \/ \E msg \in DiceMsgs : UpdateDice("A", msg)
    \/ \E msg \in StartStateMsgs : StartState("A", msg)
    \/ \E msg \in ChatMsgs : Chat("A", msg)
    \/ \E s \in Sockets : Disconnect(s)
    \/ TimerFire

Spec == Init /\ [][Next]_vars

(* -------------------- joins with distinct stable ids -------------------- *)
PlayersOf(roomID) == IF Exists(roomID) THEN rooms[roomID].players ELSE << >>

IdsOf(players) == [i \in 1..Len(players) |-> players[i].id]

HasId(players, id) == \E i \in 1..Len(players) : players[i].id = id

\* a stable id no player of the room has: one more than the largest
FreshId(roomID) ==
    LET ids == { PlayersOf(roomID)[i].id : i \in 1..Len(PlayersOf(roomID)) }
    IN  IF ids = {} THEN 1 ELSE 1 + CHOOSE m \in ids : \A n \in ids : n <= m

NameOf(id) == "P" \o ToString(id)

\* every join brings a new stable id (and its own name) into room "A"
NextSym ==
    \/ Connect
    \/ \E s \in Sockets :
          /\ FreshId("A") <= NumSymIds
          /\ JoinRoom(s, "A", Claim(FreshId("A"), NameOf(FreshId("A"))))
    \/ \E s \in Sockets : Disconnect(s)
    \/ TimerFire

SpecSym == Init /\ [][NextSym]_vars

\* the longest array a client sends in the duplicate-entry runs
MaxPlayers == 3

\* index.js:62-70 takes any array: here the list a client holds with its
\* first entry once more at the end
DuplicateArrays(roomID) ==
    LET cur == Stale(PlayersOf(roomID))
    IN  IF 1 <= Len(cur) /\ Len(cur) < MaxPlayers
        THEN { cur \o << cur[1] >> }
        ELSE {}

\* joins, disconnects and timers of room "A" interleaved with update-players
\* whose arrays may list a player twice
NextDup ==
    \/ Connect
    \/ \E s \in Sockets, player \in Claims : JoinRoom(s, "A", player)
    \/ \E msg \in UpdatePlayersMsgs("A") : UpdatePlayers("A", msg)
    \/ \E a \in DuplicateArrays("A") : UpdatePlayers("A", JSONstringify("array", a))
    \/ \E s \in Sockets : Disconnect(s)
    \/ TimerFire

SpecDup == Init /\ [][NextDup]_vars

\* the player a connection joins as: one identity for each client
PlayerOf(s) == IF s = 1 THEN Claim(1, "Alice") ELSE Claim(2, "Bob")

\* connections that join both rooms, disconnect and are timed out
NextRooms ==
    \/ Connect
    \/ \E s \in Sockets, roomID \in RoomIDs : JoinRoom(s, roomID, PlayerOf(s))
    \/ \E s \in Sockets : Disconnect(s)
    \/ TimerFire

SpecRooms == Init /\ [][NextRooms]_vars

(* ================================ claims ================================ *)
\* the timer callback of the player with stable id `id` of room r runs
TimeoutOf(r, id) ==
    /\ timers # << >>
    /\ Head(timers).roomID = r
    /\ Head(timers).player.id = id
    /\ last'.ev = "timeout"

\* a join-room for room r that got past the guard of index.js:30
JoinOf(r) == last'.ev = "join-room" /\ last'.path # "ignored" /\ last'.room = r

ClaimIds == { 1, 2 }

\* C1: a player whose stable id was accepted again in the same room after
\* the disconnect is still in the room's player sequence once the eviction
\* timer of the old connection has fired.
C1_ReconnectSurvivesTimer ==
    [][ \A r \in RoomIDs, id \in ClaimIds :
          (TimeoutOf(r, id) /\ Head(timers).rejoined /\ HasId(PlayersOf(r), id))
          => HasId(PlayersOf(r)', id) ]_vars

\* C2: when the timer of a disconnected player fires and no join with that
\* stable id came in between, exactly that player leaves the player
\* sequence, whatever chat, update-players, start-state or other joins ran
\* in between.
C2_TimerRemovesExactlyThatPlayer ==
    [][ \A r \in RoomIDs, id \in ClaimIds :
          (TimeoutOf(r, id) /\ ~Head(timers).rejoined /\ HasId(PlayersOf(r), id))
          => PlayersOf(r)' =
                Splice(PlayersOf(r), FindIndex(PlayersOf(r), LAMBDA p : p.id = id)) ]_vars

\* C3: after an accepted join that matches a stored player by stable id, the
\* stored player carries the joining connection's socket id and is not
\* marked disconnected.
C3_ReconnectUpdatesRecord ==
    (last.ev = "join-room" /\ last.path = "existing")
    => \A i \in 1..Len(PlayersOf(last.room)) :
          PlayersOf(last.room)[i].id = last.arg.id
          => /\ PlayersOf(last.room)[i].socketID = last.socket
             /\ ~PlayersOf(last.room)[i].disconnected

\* C4: a join whose stable id is already in the room's player sequence
\* leaves the sequence of stable ids as it was (same length, same order),
\* from whichever connection and however often it is repeated.
C4_JoinExistingIdKeepsMembers ==
    [][ \A r \in RoomIDs :
          (JoinOf(r) /\ HasId(PlayersOf(r), last'.arg.id))
          => IdsOf(PlayersOf(r)') = IdsOf(PlayersOf(r)) ]_vars

\* a join with a stored stable id came from another connection than the
\* stored one, into a room of two players
C4_Witness ==
    /\ last.ev = "join-room" /\ last.path = "existing"
    /\ Len(PlayersOf(last.room)) = 2
    /\ \E i \in 1..2 : /\ PlayersOf(last.room)[i].id = last.arg.id
                       /\ PlayersOf(last.room)[i].socketID # last.socket

\* C5: a join whose name a stored player of the room has under another
\* stable id changes no room and creates none, and emits name-taken to the
\* requesting connection and nothing else.
C5_NameTakenRejects ==
    [][ \A r \in RoomIDs :
          (/\ JoinOf(r)
           /\ \E i \in 1..Len(PlayersOf(r)) :
                 /\ PlayersOf(r)[i].name = last'.arg.name
                 /\ PlayersOf(r)[i].id # last'.arg.id)
          => /\ rooms' = rooms
             /\ roomOrder' = roomOrder
             /\ out' = << ToSocket(last'.socket, "name-taken", TRUE) >> ]_vars

\* a join was rejected in a room whose name holder is marked disconnected
C5_Witness ==
    /\ last.ev = "join-room" /\ last.path = "name-taken"
    /\ \E i \in 1..Len(PlayersOf(last.room)) :
          /\ PlayersOf(last.room)[i].name = last.arg.name
          /\ PlayersOf(last.room)[i].id # last.arg.id
          /\ PlayersOf(last.room)[i].disconnected

\* C6: with joins of distinct stable ids and evictions only, the players of
\* a room have pairwise different symbols of the eleven-symbol alphabet, and
\* a player just pushed has the first symbol no earlier player of the room
\* uses.
C6_SymbolsUnique ==
    LET players == PlayersOf("A")
        alphabet == { possibleSymbols[k] : k \in 1..Len(possibleSymbols) }
    IN  /\ \A i \in 1..Len(players) : players[i].symbol \in alphabet
        /\ \A i, j \in 1..Len(players) :
              i # j => players[i].symbol # players[j].symbol
        /\ (last.ev = "join-room" /\ last.path = "pushed")
           => LET earlier == SubSeq(players, 1, Len(players) - 1)
                  mine == players[Len(players)].symbol
              IN  \E k \in 1..Len(possibleSymbols) :
                     /\ possibleSymbols[k] = mine
                     /\ mine \notin usedSymbols(earlier)
                     /\ \A j \in 1..(k - 1) :
                           possibleSymbols[j] \in usedSymbols(earlier)

\* JSON.parse throws on the payload
Unparseable(msg) ==
    msg.type = "undefined" \/ (msg.type = "string" /\ msg.json = "invalid")

\* what the payload parses to
ShapeOf(msg) == IF msg.type = "string" THEN msg.json ELSE msg.type

Malformed(ev, msg) ==
    \/ ev = "update-players" /\ (Unparseable(msg) \/ ShapeOf(msg) # "array")
    \/ ev = "start-state" /\ (Unparseable(msg) \/ ShapeOf(msg) # "boolean")

\* C7: an update-players or start-state whose payload does not parse, or
\* parses to something else than an array (a boolean for start-state),
\* changes no room and emits nothing.
C7_MalformedPayloadIgnored ==
    [][ Malformed(last'.ev, last'.arg) => (rooms' = rooms /\ out' = << >>) ]_vars

\* a start-state with a JSON number reached a room that exists and has
\* not started
C7_Witness ==
    /\ last.ev = "start-state"
    /\ last.arg.type = "string" /\ last.arg.json = "number"
    /\ Exists(last.room)
    /\ rooms[last.room].players # << >>
    /\ ~rooms[last.room].started

\* C8: on an existing room a chat string longer than 500 leaves the chat
\* as it is and emits nothing; a string of at most 500 becomes the last
\* chat entry and the whole chat is then sent to the room.
C8_ChatLengthLimit ==
    [][ \A r \in RoomIDs :
          (/\ last'.ev = "chat" /\ last'.room = r
           /\ last'.arg.type = "string"
           /\ Exists(r))
          => IF Len(last'.arg.val) > MaxChatLength
             THEN rooms' = rooms /\ out' = << >>
             ELSE /\ rooms'[r] = [rooms[r] EXCEPT !.chat = Append(@, last'.arg.val)]
                  /\ out' = << ToRoom(r, "chat",
                                      JSONstringify("array", rooms'[r].chat)) >> ]_vars

\* a message of exactly 500 was appended after an earlier chat entry
C8_Witness ==
    /\ last.ev = "chat" /\ last.path = "stored"
    /\ Len(last.arg.val) = MaxChatLength
    /\ Len(rooms[last.room].chat) = 2
    /\ rooms[last.room].chat[2] = last.arg.val
    /\ Len(out) = 1 /\ out[1].payload.val = rooms[last.room].chat

\* some connection receives a message of `out`
Delivered ==
    \E i \in 1..Len(out) : out[i].to = "socket" \/ subs[out[i].room] # {}

MutationEvents ==
    { "update-players", "update-turn", "update-dice", "start-state", "chat" }

\* C9: a mutation event for a room id that is not in the registry changes
\* nothing in the registry and no connection receives a message.
C9_UnknownRoomIsNoOp ==
    [][ \A r \in RoomIDs :
          (last'.ev \in MutationEvents /\ last'.room = r /\ ~Exists(r))
          => (rooms' = rooms /\ ~Delivered') ]_vars

\* C10: the timer callback that removes the only player of a room deletes
\* the room in the same step, and a join to a room id that is not in the
\* registry creates the room with turn 0, dice (-1,-1), started false, an
\* empty chat and the joining player as its only player.
C10_LastEvictionDeletesRoom ==
    [][ \A r \in RoomIDs :
          /\ (/\ last'.ev = "timeout" /\ last'.room = r
              /\ Len(PlayersOf(r)) = 1
              /\ PlayersOf(r)' # PlayersOf(r))
             => (rooms'[r] = NoRoom /\ \A k \in 1..Len(roomOrder') : roomOrder'[k] # r)
          /\ (JoinOf(r) /\ last'.path # "name-taken" /\ ~Exists(r))
             => /\ rooms'[r] # NoRoom
                /\ rooms'[r].currentTurn = 0
                /\ rooms'[r].dice = << -1, -1 >>
                /\ rooms'[r].started = FALSE
                /\ rooms'[r].chat = << >>
                /\ Len(rooms'[r].players) = 1
                /\ rooms'[r].players[1].id = last'.arg.id ]_vars

\* the timer has just removed the only player of a room and the room is
\* gone; the empty player list went out to the room
C10_Witness ==
    /\ last.ev = "timeout" /\ last.path = "evicted"
    /\ rooms[last.room] = NoRoom
    /\ Len(out) = 1 /\ out[1].payload.val = << >>

\* C11: no room in the registry has an empty player sequence.
C11_NoEmptyRoom ==
    \A r \in RoomIDs : Exists(r) => PlayersOf(r) # << >>

\* the first player of room r that carries connection id s, 0 if none
IndexOfSocket(r, s) ==
    FindIndex(PlayersOf(r), LAMBDA p : p.socketID = s)

\* C12: a timer callback that finds no player with its connection id in the
\* room, or finds that player not marked disconnected, changes nothing: the
\* registry, and with it every player sequence and chat, stays as it was
\* and nothing is emitted.
C12_StaleTimerIsNoOp ==
    [][ \A r \in RoomIDs, s \in Sockets :
          (/\ timers # << >> /\ last'.ev = "timeout"
           /\ Head(timers).roomID = r /\ Head(timers).socketID = s
           /\ \/ IndexOfSocket(r, s) = 0
              \/ ~PlayersOf(r)[IndexOfSocket(r, s)].disconnected)
          => (rooms' = rooms /\ roomOrder' = roomOrder /\ out' = << >>) ]_vars

\* a callback has just run for a player who is still in the room with the
\* timer's connection id and is not marked disconnected
C12_Witness ==
    /\ last.ev = "timeout" /\ last.path = "no-op"
    /\ IndexOfSocket(last.room, last.socket) # 0
    /\ ~PlayersOf(last.room)[IndexOfSocket(last.room, last.socket)].disconnected
    /\ out = << >>

\* C13: within each room no two players of the player sequence share a
\* stable id.
C13_StableIdsUnique ==
    \A r \in RoomIDs :
        \A i, j \in 1..Len(PlayersOf(r)) :
            PlayersOf(r)[i].id = PlayersOf(r)[j].id => i = j

\* C14: a join is rejected with name-taken exactly when the room holds a
\* player that is not marked disconnected and has the joining name under a
\* different stable id; a name held only by disconnected players is free.
C14_RejectedIffConnectedHolder ==
    [][ \A r \in RoomIDs :
          JoinOf(r)
          => (last'.path = "name-taken"
              <=> \E i \in 1..Len(PlayersOf(r)) :
                     /\ PlayersOf(r)[i].name = last'.arg.name
                     /\ PlayersOf(r)[i].id # last'.arg.id
                     /\ ~PlayersOf(r)[i].disconnected) ]_vars

\* C15: an update-players whose payload parses to an array, sent for a room
\* of the registry, leaves the room with exactly the payload as its player
\* sequence (so of two updates in a row only the second is stored), changes
\* nothing else of the room and emits the payload to the room.
C15_UpdatePlayersReplaces ==
    [][ \A r \in RoomIDs :
          (/\ last'.ev = "update-players" /\ last'.room = r
           /\ Exists(r)
           /\ isValidJSON(last'.arg)
           /\ JSONparse(last'.arg).kind = "array")
          => /\ rooms' = [rooms EXCEPT ![r].players = JSONparse(last'.arg).val]
             /\ out' = << ToRoom(r, "update-players",
                                 JSONstringify("array", JSONparse(last'.arg).val)) >> ]_vars

\* with both connections in the room, an update has just replaced the
\* sequence by a one-player payload
C15_Witness ==
    /\ last.ev = "update-players" /\ last.path = "stored"
    /\ Cardinality(subs[last.room]) = 2
    /\ Len(JSONparse(last.arg).val) = 1
    /\ PlayersOf(last.room) = JSONparse(last.arg).val

IsPrefix(a, b) == Len(a) <= Len(b) /\ SubSeq(b, 1, Len(a)) = a

\* C16: in every step that keeps a room in the registry, the room's chat
\* before the step is a prefix of its chat after the step.
C16_ChatAppendOnly ==
    [][ \A r \in RoomIDs :
          (Exists(r) /\ Exists(r)')
          => IsPrefix(rooms[r].chat, rooms'[r].chat) ]_vars

\* a client message of full length is followed in the chat by the note the
\* server has just added for a disconnect
C16_Witness ==
    /\ last.ev = "disconnect" /\ last.path = "scheduled"
    /\ Len(rooms[last.room].chat) = 2
    /\ Len(rooms[last.room].chat[1]) = MaxChatLength
    /\ \E i \in 1..Len(PlayersOf(last.room)) :
          rooms[last.room].chat[2] = WaitingNote(PlayersOf(last.room)[i].name)

AcceptedJoinOf(r) == JoinOf(r) /\ last'.path \in {"pushed", "existing"}

\* C17: every accepted join, whether it pushes a player or finds the stable
\* id already stored, emits to the room's group, in this order, the room,
\* its player sequence, its turn, its dice and its chat as they are after
\* the join, and the joining connection is in that group.
C17_AcceptedJoinBroadcastsState ==
    [][ \A r \in RoomIDs :
          AcceptedJoinOf(r)
          => /\ last'.socket \in subs'[r]
             /\ Len(out') = 5
             /\ \A i \in 1..5 : out'[i].to = "room" /\ out'[i].room = r
             /\ [i \in 1..5 |-> out'[i].event] =
                   << "joined-room", "update-players", "update-turn",
                      "update-dice", "update-chat" >>
             /\ out'[1].payload.val = rooms'[r]
             /\ out'[2].payload.val = rooms'[r].players
             /\ out'[3].payload.val = rooms'[r].currentTurn
             /\ out'[4].payload.val = rooms'[r].dice
             /\ out'[5].payload.val = rooms'[r].chat ]_vars

\* a join on the reconnect path has just sent the five messages to a group
\* of two connections, the joining one among them, with a chat to report
C17_Witness ==
    /\ last.ev = "join-room" /\ last.path = "existing"
    /\ Cardinality(subs[last.room]) = 2
    /\ last.socket \in subs[last.room]
    /\ Len(out) = 5
    /\ out[5].payload.val = rooms[last.room].chat
    /\ rooms[last.room].chat # << >>

\* C18: every room of the registry has turn 0 and dice (-1,-1), and these
\* are the turn and dice an accepted join sends, whatever update-turn and
\* update-dice messages were relayed before.
C18_TurnAndDiceStayInitial ==
    /\ \A r \in RoomIDs :
          Exists(r) => rooms[r].currentTurn = 0 /\ rooms[r].dice = << -1, -1 >>
    /\ (last.ev = "join-room" /\ last.path \in {"pushed", "existing"})
          => /\ out[3].event = "update-turn" /\ out[3].payload.val = 0
             /\ out[4].event = "update-dice" /\ out[4].payload.val = << -1, -1 >>

\* a turn of 1 or dice (3,4) have just been relayed to a room of the
\* registry, whose stored turn and dice are the initial ones
C18_Witness ==
    /\ last.path = "forwarded"
    /\ Exists("A") /\ last.room = "A"
    /\ \/ last.ev = "update-turn" /\ out[1].payload.val = 1
       \/ last.ev = "update-dice" /\ out[1].payload.val = << 3, 4 >>
    /\ rooms["A"].currentTurn = 0 /\ rooms["A"].dice = << -1, -1 >>

\* C19: a connection enters a room's broadcast group only by a join of its
\* own to that room that is accepted; a join answered with name-taken
\* leaves the connection outside the group, so that it receives none of
\* the room's later messages.
C19_OnlyAcceptedJoinsSubscribe ==
    [][ \A r \in RoomIDs, s \in Sockets :
          (s \notin subs[r] /\ s \in subs'[r])
          => (AcceptedJoinOf(r) /\ last'.socket = s) ]_vars

\* C20: once a connection is closed and every eviction timer has run, no
\* room holds a player with that connection's id, in however many rooms
\* the connection had joined.
C20_DeadConnectionLeavesAllRooms ==
    \A s \in Sockets :
        (conn[s] = "closed" /\ timers = << >>)
        => \A r \in RoomIDs : IndexOfSocket(r, s) = 0
====
